---- MODULE Spec2Model ----
(***************************************************************************)
(* Profile record reconciliation (profileRecordUtils.ts): the classifier   *)
(* profileToProfileRecords, the form normalizer (both directions), the     *)
(* options builder profileRecordsToRecordOptions and the diff engine       *)
(* getProfileRecordsDiff, each as an operator computed the way the code    *)
(* computes it, and one specification per pipeline that draws the inputs   *)
(* from bounded sets and applies the functions.                            *)
(*                                                                         *)
(* A JavaScript string is a sequence of symbols.  A symbol is a space, a   *)
(* letter, or a whole word ("avatar", "ipfs") that no operation of the     *)
(* code looks inside.  `undefined` is the sequence Undefined, which is no  *)
(* string.                                                                 *)
(***************************************************************************)
EXTENDS Integers, Sequences, FiniteSets, TLC

VARIABLES
  pc,               \* which step of the pipeline has run
  records,          \* the Record list given to the operation (currentRecords, profileRecords, records)
  cursor,           \* how many records the options builder's reduce has folded
  previousRecords,  \* getProfileRecordsDiff's second argument
  profile,          \* profileToProfileRecords's argument
  diff,             \* what getProfileRecordsDiff returned
  options,          \* what profileRecordsToRecordOptions returned
  form,             \* what profileRecordsToProfileEditorForm returned
  restored,         \* what profileEditorFormToProfileRecords returned
  sorted            \* what profileToProfileRecords returned

vars == <<pc, records, cursor, previousRecords, profile, diff, options, form, restored, sorted>>

----------------------------------------------------------------------------
(* Bounds of the model *)

MaxDiffTotal == 3
MaxFoldLen == 3
MaxFormLen == 3
MaxProfileLen == 2

----------------------------------------------------------------------------
(* Strings *)

SP == " "
EMPTY == <<>>
Undefined == <<"<undefined>">>
AVATAR == <<"avatar">>

Str(w) == <<w>>

\* JavaScript truthiness of a `string | undefined`
Truthy(v) == v # Undefined /\ v # EMPTY

\* `v || ''`
OrEmpty(v) == IF Truthy(v) THEN v ELSE EMPTY

RECURSIVE TrimStart(_)
TrimStart(s) == IF s # EMPTY /\ Head(s) = SP THEN TrimStart(Tail(s)) ELSE s

RECURSIVE TrimEnd(_)
TrimEnd(s) == IF s # EMPTY /\ s[Len(s)] = SP THEN TrimEnd(SubSeq(s, 1, Len(s) - 1)) ELSE s

\* String.prototype.trim
Trim(s) == TrimEnd(TrimStart(s))

\* one symbol of String.prototype.toLowerCase
LowerSym(c) ==
  CASE c = "ETH" -> "eth"
    [] c = "BTC" -> "btc"
    [] c = "DOGE" -> "doge"
    [] c = "Name" -> "name"
    [] OTHER -> c

toLowerCase(s) == [i \in 1..Len(s) |-> LowerSym(s[i])]

\* The sequences over S of length at most n
SeqsUpTo(S, n) == UNION {[1..k -> S] : k \in 0..n}

Min(I) == CHOOSE i \in I : \A j \in I : i <= j

\* Array.prototype.findIndex, given the callback's answer for each element:
\* 1-based, 0 for the code's -1
findIndex(hits) ==
  LET I == {i \in DOMAIN hits : hits[i]}
  IN IF I = {} THEN 0 ELSE Min(I)

Rec(k, t, g, v) == [key |-> k, type |-> t, group |-> g, value |-> v]

----------------------------------------------------------------------------
(* getProfileRecordsDiff *)

Null == [null |-> TRUE]

\* ChangeOf without the check that drops an empty current value
MutChangeOfKeepsEmpty(currentRecord, previous) ==
  LET identical == findIndex([j \in DOMAIN previous |->
        previous[j].key = currentRecord.key /\ previous[j].group = currentRecord.group])
  IN IF identical = 0 THEN currentRecord
     ELSE IF previous[identical].value # currentRecord.value THEN currentRecord
     ELSE Null

\* the callback of currentRecords.map: the record, or null
ChangeOf(currentRecord, previous) ==
  LET identical == findIndex([j \in DOMAIN previous |->
        previous[j].key = currentRecord.key /\ previous[j].group = currentRecord.group])
  IN IF ~Truthy(currentRecord.value) THEN Null
     ELSE IF identical = 0 THEN currentRecord
     ELSE IF previous[identical].value # currentRecord.value THEN currentRecord
     ELSE Null

updatedAndNewRecords(current, previous) ==
  SelectSeq([i \in 1..Len(current) |-> ChangeOf(current[i], previous)],
            LAMBDA r : r # Null)

\* IsDeleted without the website rule: every group matched by (key, group)
MutIsDeletedNoWebsiteRule(previousRecord, current) ==
  findIndex([j \in DOMAIN current |->
    current[j].key = previousRecord.key /\ current[j].group = previousRecord.group]) = 0

\* IsDeleted that takes a current record of empty value for an absent one
MutIsDeletedIgnoresEmpty(previousRecord, current) ==
  IF previousRecord.group = "website"
  THEN findIndex([j \in DOMAIN current |-> current[j].group = "website"]) = 0
  ELSE findIndex([j \in DOMAIN current |->
         /\ current[j].key = previousRecord.key
         /\ current[j].group = previousRecord.group
         /\ Truthy(current[j].value)]) = 0

\* the callback of previousRecords.filter
IsDeleted(previousRecord, current) ==
  IF previousRecord.group = "website"
  THEN findIndex([j \in DOMAIN current |-> current[j].group = "website"]) = 0
  ELSE findIndex([j \in DOMAIN current |->
         current[j].key = previousRecord.key /\ current[j].group = previousRecord.group]) = 0

\* the callback of the deletions' map: { ...r, value: '' }
Tombstone(r) == [r EXCEPT !.value = EMPTY]

deletedRecords(current, previous) ==
  LET kept == SelectSeq(previous, LAMBDA p : IsDeleted(p, current))
  IN [i \in 1..Len(kept) |-> Tombstone(kept[i])]

\* getProfileRecordsDiff with the two parts in the other order
MutDiffDeletionsFirst(current, previous) ==
  deletedRecords(current, previous) \o updatedAndNewRecords(current, previous)

getProfileRecordsDiff(current, previous) ==
  updatedAndNewRecords(current, previous) \o deletedRecords(current, previous)

----------------------------------------------------------------------------
(* profileRecordsToRecordOptions *)

\* viem's stringToHex, one symbol at a time
stringToHex(s) == <<"0x">> \o [i \in 1..Len(s) |-> <<"hex", s[i]>>]

NoAbi == <<>>

InitialOptions(clearRecords) ==
  [clearRecords |-> clearRecords, texts |-> <<>>, coins |-> <<>>,
   contentHash |-> Undefined, abi |-> NoAbi]

\* options.texts?.find((r) => r.key === 'avatar')?.value || ''
currentAvatarValue(opts) ==
  LET i == findIndex([j \in DOMAIN opts.texts |-> opts.texts[j].key = AVATAR])
  IN IF i = 0 THEN EMPTY ELSE OrEmpty(opts.texts[i].value)

\* newAvatarValue without the test of the incoming group
MutNewAvatarAnyGroup(cur, itemValue, group) ==
  LET defaultAvatarValue == IF Truthy(cur) /\ Truthy(itemValue) THEN itemValue ELSE cur
  IN IF Truthy(defaultAvatarValue) THEN defaultAvatarValue
     ELSE IF Truthy(cur) THEN cur ELSE itemValue

newAvatarValue(cur, itemValue, group) ==
  LET defaultAvatarValue ==
        IF Truthy(cur) /\ Truthy(itemValue) /\ group = "media" THEN itemValue ELSE cur
  IN IF Truthy(defaultAvatarValue) THEN defaultAvatarValue
     ELSE IF Truthy(cur) THEN cur ELSE itemValue

\* TextUpsert without the filter that removes the key's earlier entry
MutTextUpsertNoFilter(texts, recordItem) == Append(texts, recordItem)

\* [...(options.texts?.filter((r) => r.key !== recordItem.key) || []), recordItem]
TextUpsert(texts, recordItem) ==
  Append(SelectSeq(texts, LAMBDA r : r.key # recordItem.key), recordItem)

\* [...(options.coins?.filter((r) => r.coin !== recordItem.key) || []), { coin: key, value }]
CoinUpsert(coins, recordItem, key, value) ==
  Append(SelectSeq(coins, LAMBDA r : r.coin # recordItem.key),
         [coin |-> key, value |-> value])

\* the reducer: one record folded into the accumulated options
FoldRecord(opts, record) ==
  IF ~Truthy(record.key) THEN opts
  ELSE
    LET key == record.key
        value == IF record.value = Undefined THEN EMPTY ELSE record.value
        group == record.group
        recordItem == [key |-> Trim(key), value |-> Trim(value)]
    IN IF record.key = AVATAR
       THEN [opts EXCEPT !.texts =
               Append(SelectSeq(opts.texts, LAMBDA r : r.key # AVATAR),
                      [key |-> AVATAR,
                       value |-> newAvatarValue(currentAvatarValue(opts),
                                                recordItem.value, group)])]
       ELSE IF record.type = "text"
       THEN [opts EXCEPT !.texts = TextUpsert(opts.texts, recordItem)]
       ELSE IF record.type = "addr"
       THEN [opts EXCEPT !.coins = CoinUpsert(opts.coins, recordItem, key, value)]
       ELSE IF record.type = "contenthash"
       THEN [opts EXCEPT !.contentHash = recordItem.value]
       ELSE IF record.type = "abi"
       THEN [opts EXCEPT !.abi =
               <<[contentType |-> 1, encodedData |-> stringToHex(recordItem.value)]>>]
       ELSE opts

RECURSIVE Reduce(_, _)
Reduce(acc, list) ==
  IF list = <<>> THEN acc ELSE Reduce(FoldRecord(acc, Head(list)), Tail(list))

profileRecordsToRecordOptions(profileRecords, clearRecords) ==
  Reduce(InitialOptions(clearRecords), profileRecords)

----------------------------------------------------------------------------
(* State that a specification leaves alone *)

NoOptions == InitialOptions(FALSE)
NoForm == [avatar |-> EMPTY, records |-> <<>>]
NoProfile == [texts |-> <<>>, coins |-> <<>>, contentHash |-> Undefined, abi |-> Undefined]

----------------------------------------------------------------------------
(* The diff pipeline: getProfileRecordsDiff, then the options builder on   *)
(* its result.                                                             *)

DiffValues == {Str("1"), Str("2"), EMPTY, Undefined}

DiffRecords ==
  {Rec(k, "text", "general", v) : k \in {Str("a")}, v \in DiffValues}
  \cup {Rec(Str("b"), "text", "custom", Str("1"))}
  \cup {Rec(k, "contenthash", "website", v) :
          k \in {Str("ipfs"), Str("ipns")}, v \in {Str("h1"), Str("h2")}}
  \cup {Rec(Str("ipfs"), "contenthash", "website", EMPTY),
        Rec(Str("ipns"), "contenthash", "website", <<SP, "h2">>),
        Rec(Str("ipns"), "contenthash", "website", <<SP>>),
        Rec(EMPTY, "contenthash", "website", Str("h1")),
        Rec(AVATAR, "contenthash", "website", Str("h1")),
        Rec(Str("b"), "contenthash", "custom", Str("1"))}

InitDiff ==
  /\ pc = "input"
  /\ records \in SeqsUpTo(DiffRecords, MaxDiffTotal)
  /\ previousRecords \in SeqsUpTo(DiffRecords, MaxDiffTotal - Len(records))
  /\ cursor = 0
  /\ profile = NoProfile
  /\ diff = <<>>
  /\ options = NoOptions
  /\ form = NoForm
  /\ restored = <<>>
  /\ sorted = <<>>

Diff ==
  /\ pc = "input"
  /\ diff' = getProfileRecordsDiff(records, previousRecords)
  /\ pc' = "diffed"
  /\ UNCHANGED <<records, cursor, previousRecords, profile, options, form, restored, sorted>>

Submit ==
  /\ pc = "diffed"
  /\ \E clearRecords \in BOOLEAN :
       options' = profileRecordsToRecordOptions(diff, clearRecords)
  /\ pc' = "submitted"
  /\ UNCHANGED <<records, cursor, previousRecords, profile, diff, form, restored, sorted>>

NextDiff == Diff \/ Submit

SpecDiff == InitDiff /\ [][NextDiff]_vars

----------------------------------------------------------------------------
(* The options builder alone: profileRecordsToRecordOptions(records, c),   *)
(* one call of the reducer per step.                                       *)

FoldRecords ==
  {Rec(Str("a"), "text", "general", Str("x")),
   Rec(Str("a"), "text", "general", <<"y", SP>>),
   Rec(Str("a"), "text", "general", Undefined),
   Rec(<<SP, "a">>, "text", "general", Str("z")),
   Rec(Str("b"), "text", "custom", Str("x")),
   Rec(EMPTY, "text", "general", Str("x")),
   Rec(<<SP, "avatar">>, "text", "custom", Str("w")),
   Rec(AVATAR, "text", "media", Str("p")),
   Rec(AVATAR, "text", "media", <<SP, "q">>),
   Rec(AVATAR, "text", "media", EMPTY),
   Rec(AVATAR, "text", "custom", Str("r")),
   Rec(AVATAR, "addr", "address", Str("s")),
   Rec(Str("ETH"), "addr", "address", Str("x")),
   Rec(<<SP, "ETH">>, "addr", "address", Str("x")),
   Rec(<<SP, "ETH">>, "addr", "address", Str("y")),
   Rec(Str("ipfs"), "contenthash", "website", <<SP, "h1">>),
   Rec(Str("abi"), "abi", "other", Str("j"))}

InitFold ==
  /\ records \in SeqsUpTo(FoldRecords, MaxFoldLen)
  /\ pc = IF records = <<>> THEN "folded" ELSE "folding"
  /\ cursor = 0
  /\ \E clearRecords \in BOOLEAN : options = InitialOptions(clearRecords)
  /\ previousRecords = <<>>
  /\ profile = NoProfile
  /\ diff = <<>>
  /\ form = NoForm
  /\ restored = <<>>
  /\ sorted = <<>>

FoldStep ==
  /\ pc = "folding"
  /\ options' = FoldRecord(options, records[cursor + 1])
  /\ cursor' = cursor + 1
  /\ pc' = IF cursor + 1 = Len(records) THEN "folded" ELSE "folding"
  /\ UNCHANGED <<records, previousRecords, profile, diff, form, restored, sorted>>

NextFold == FoldStep

SpecFold == InitFold /\ [][NextFold]_vars

----------------------------------------------------------------------------
(* The form normalizer *)

\* IsFormAvatar without the test of the group
MutIsAvatarOfAnyGroup(record) == record.key = AVATAR
\* record.key === 'avatar' && record.group === 'media'
IsFormAvatar(record) == record.key = AVATAR /\ record.group = "media"

\* the reducer of profileRecordsToProfileEditorForm
FormStep(result, record) ==
  IF IsFormAvatar(record)
  THEN [result EXCEPT !.avatar = OrEmpty(record.value)]
  ELSE [result EXCEPT !.records = Append(@, [record EXCEPT !.value = OrEmpty(@)])]

RECURSIVE FormReduce(_, _)
FormReduce(result, list) ==
  IF list = <<>> THEN result ELSE FormReduce(FormStep(result, Head(list)), Tail(list))

profileRecordsToProfileEditorForm(list) ==
  FormReduce([avatar |-> EMPTY, records |-> <<>>], list)

profileEditorFormToProfileRecords(data) ==
  data.records \o
    (IF Truthy(data.avatar) THEN <<Rec(AVATAR, "text", "media", data.avatar)>> ELSE <<>>)

FormRecords ==
  {Rec(AVATAR, "text", "media", Str("p")),
   Rec(AVATAR, "text", "media", Undefined),
   Rec(AVATAR, "text", "custom", Str("r")),
   Rec(Str("a"), "text", "general", Str("x")),
   Rec(Str("a"), "text", "general", EMPTY),
   Rec(Str("a"), "text", "general", Undefined),
   Rec(Str("a"), "text", "custom", Str("x")),
   Rec(Str("b"), "text", "custom", <<SP, "y">>),
   Rec(Str("ETH"), "addr", "address", Str("x"))}

InitForm ==
  /\ pc = "input"
  /\ records \in SeqsUpTo(FormRecords, MaxFormLen)
  /\ cursor = 0
  /\ previousRecords = <<>>
  /\ profile = NoProfile
  /\ diff = <<>>
  /\ options = NoOptions
  /\ form = NoForm
  /\ restored = <<>>
  /\ sorted = <<>>

ToForm ==
  /\ pc = "input"
  /\ form' = profileRecordsToProfileEditorForm(records)
  /\ pc' = "formed"
  /\ UNCHANGED <<records, cursor, previousRecords, profile, diff, options, restored, sorted>>

ToRecords ==
  /\ pc = "formed"
  /\ restored' = profileEditorFormToProfileRecords(form)
  /\ pc' = "restored"
  /\ UNCHANGED <<records, cursor, previousRecords, profile, diff, options, form, sorted>>

NextForm == ToForm \/ ToRecords

SpecForm == InitForm /\ [][NextForm]_vars

----------------------------------------------------------------------------
(* The classifier *)

\* supportedGeneralRecordKeys.json and supportedSocialRecordKeys.json
supportedGeneralRecordKeys == {Str("name"), Str("url")}
supportedAccounts == {Str("com.twitter")}

\* the static priority table of profileRecordOptions: group -> key -> rank
sortValues ==
  [g \in {"media", "general", "social", "address", "website", "other", "custom"} |->
     CASE g = "general" -> (Str("name") :> 101 @@ Str("url") :> 102)
       [] g = "social" -> (Str("com.twitter") :> 201)
       [] g = "address" -> (Str("eth") :> 301 @@ Str("btc") :> 302)
       [] g = "website" -> (Str("ipfs") :> 401)
       [] g = "other" -> (Str("abi") :> 501)
       [] OTHER -> <<>>]

unknownGroupValue ==
  [media |-> 1, general |-> 199, social |-> 299, address |-> 399,
   website |-> 499, other |-> 599, custom |-> 999]

\* sortValues[group]?.[key] || unknownGroupValue[group]; 0 stands for undefined,
\* which `||` treats as it treats a rank of 0
RecordValue(group, key) ==
  LET v == IF key \in DOMAIN sortValues[group] THEN sortValues[group][key] ELSE 0
  IN IF v # 0 THEN v ELSE unknownGroupValue[group]

\* sortProfileRecords without toLowerCase on the keys
MutSortNoLowerCase(recordA, recordB) ==
  RecordValue(recordA.group, recordA.key) - RecordValue(recordB.group, recordB.key)

sortProfileRecords(recordA, recordB) ==
  RecordValue(recordA.group, toLowerCase(recordA.key))
    - RecordValue(recordB.group, toLowerCase(recordB.key))

\* Array.prototype.sort is stable: each element goes before the first
\* element the comparator puts after it
InsertSorted(list, x) ==
  LET i == findIndex([j \in DOMAIN list |-> sortProfileRecords(list[j], x) > 0])
  IN IF i = 0 THEN Append(list, x)
     ELSE SubSeq(list, 1, i - 1) \o <<x>> \o SubSeq(list, i, Len(list))

RECURSIVE Sort(_)
Sort(list) ==
  IF list = <<>> THEN <<>>
  ELSE InsertSorted(Sort(SubSeq(list, 1, Len(list) - 1)), list[Len(list)])

\* contentHashToString: '' for an absent content hash
contentHashToString(contentHash) == IF contentHash = Undefined THEN EMPTY ELSE contentHash

Protocols == {"ipfs", "ipns"}

\* getProtocolType: the protocol of "<protocol>://<decoded>", or null
getProtocolType(encoded) ==
  IF Len(encoded) >= 2 /\ encoded[2] = "://" /\ encoded[1] \in Protocols
  THEN [protocolType |-> encoded[1], decoded |-> SubSeq(encoded, 3, Len(encoded))]
  ELSE Null

getInternalCodec(protocolType) == Str(protocolType)

\* JSON.stringify of the abi descriptor
JSONstringify(abi) == <<"json">> \o abi

TextRecord(t) ==
  IF t.key = AVATAR
  THEN Rec(t.key, "text", "media", t.value)
  ELSE Rec(t.key, "text",
           IF t.key \in supportedGeneralRecordKeys THEN "general"
           ELSE IF t.key \in supportedAccounts THEN "social"
           ELSE "custom",
           t.value)

CoinRecord(c) == Rec(c.name, "addr", "address", c.value)

\* the records before the sort: [...texts, ...addresses, ...website, ...abi]
Classified(p) ==
  LET texts == [i \in 1..Len(p.texts) |-> TextRecord(p.texts[i])]
      addresses == [i \in 1..Len(p.coins) |-> CoinRecord(p.coins[i])]
      contentHashStr == contentHashToString(p.contentHash)
      protocolTypeData == getProtocolType(contentHashStr)
      protocolKey ==
        IF protocolTypeData # Null
        THEN getInternalCodec(protocolTypeData.protocolType)
        ELSE Undefined
      website ==
        IF Truthy(protocolKey)
        THEN <<Rec(protocolKey, "contenthash", "website", contentHashStr)>>
        ELSE <<>>
      abi ==
        IF p.abi # Undefined
        THEN <<Rec(Str("abi"), "abi", "other", JSONstringify(p.abi))>>
        ELSE <<>>
  IN texts \o addresses \o website \o abi

profileToProfileRecords(p) == Sort(Classified(p))

ProfileTexts ==
  {[key |-> k, value |-> Str("v1")] :
     k \in {AVATAR, Str("name"), Str("Name"), Str("com.twitter"), Str("foo")}}
  \cup {[key |-> Str("foo"), value |-> Str("v2")]}

ProfileCoins == {[name |-> Str(n), value |-> Str("v1")] : n \in {"ETH", "BTC", "DOGE"}}

ProfileContentHashes == {Undefined, <<"ipfs", "://", "h1">>, <<"ipns", "://", "h1">>, <<"ftp", "://", "h1">>}

ProfileAbis == {Undefined, Str("[]")}

InitSort ==
  /\ pc = "input"
  /\ profile \in [texts : SeqsUpTo(ProfileTexts, MaxProfileLen),
                  coins : SeqsUpTo(ProfileCoins, MaxProfileLen),
                  contentHash : ProfileContentHashes,
                  abi : ProfileAbis]
  /\ records = <<>>
  /\ cursor = 0
  /\ previousRecords = <<>>
  /\ diff = <<>>
  /\ options = NoOptions
  /\ form = NoForm
  /\ restored = <<>>
  /\ sorted = <<>>

Classify ==
  /\ pc = "input"
  /\ sorted' = profileToProfileRecords(profile)
  /\ pc' = "sorted"
  /\ UNCHANGED <<records, cursor, previousRecords, profile, diff, options, form, restored>>

NextSort == Classify

SpecSort == InitSort /\ [][NextSort]_vars

----------------------------------------------------------------------------
(* What the diff claims are stated with *)

Range(s) == {s[i] : i \in DOMAIN s}

\* the elements of s at the indices in I, by increasing index
RECURSIVE SubseqAt(_, _)
SubseqAt(s, I) ==
  IF I = {} THEN <<>>
  ELSE LET m == Min(I) IN <<s[m]>> \o SubseqAt(s, I \ {m})

SameKeyGroup(a, b) == a.key = b.key /\ a.group = b.group

\* no two records of the list share a (key, group) pair
UniquePairs(list) ==
  \A i, j \in DOMAIN list : SameKeyGroup(list[i], list[j]) => i = j

WebsiteIndices(list) == {i \in DOMAIN list : list[i].group = "website"}

\* a previous record is matched: same (key, group), or any website for a website
Matched(p, current) ==
  IF p.group = "website"
  THEN \E c \in Range(current) : c.group = "website"
  ELSE \E c \in Range(current) : SameKeyGroup(c, p)

Unmatched == {i \in DOMAIN previousRecords : ~Matched(previousRecords[i], records)}

\* a current record is a change: non-empty, and new or different from the
\* first previous record of its (key, group)
Changed(c, previous) ==
  /\ c.value # EMPTY
  /\ c.value # Undefined
  /\ LET J == {j \in DOMAIN previous : SameKeyGroup(previous[j], c)}
     IN J = {} \/ previous[Min(J)].value # c.value

ChangedIndices == {i \in DOMAIN records : Changed(records[i], previousRecords)}

HasTombstone(p) ==
  \E d \in Range(diff) : d.key = p.key /\ d.group = p.group /\ d.value = EMPTY

\* previous is one website record and current is one website record of another key
WebsiteSwitch ==
  /\ Len(previousRecords) = 1
  /\ Len(records) = 1
  /\ previousRecords[1].group = "website"
  /\ records[1].group = "website"
  /\ previousRecords[1].key # records[1].key
  /\ Truthy(records[1].value)

\* C1 as stated, on its own example: previous = [ipfs/website 'h1'] and
\* current = [ipns/website 'h2'] give the new ipns record and a deletion
\* (value '') of the previous ipfs record.
C1_Original ==
  (/\ pc = "diffed"
   /\ previousRecords = <<Rec(Str("ipfs"), "contenthash", "website", Str("h1"))>>
   /\ records = <<Rec(Str("ipns"), "contenthash", "website", Str("h2"))>>)
  => /\ records[1] \in Range(diff)
     /\ Rec(Str("ipfs"), "contenthash", "website", EMPTY) \in Range(diff)

\* C1 amended: when the website record's key changed, the diff is the new
\* current website record alone; and in general, whenever current holds a
\* website record, the diff holds no deletion (value '') of a website record.
C1_WebsiteSwitchEmitsNoDeletion ==
  pc = "diffed" =>
     /\ WebsiteSwitch => diff = <<records[1]>>
     /\ WebsiteIndices(records) # {} =>
          \A d \in Range(diff) : d.group = "website" => d.value # EMPTY

C1_Witness ==
  /\ pc = "diffed"
  /\ WebsiteSwitch
  /\ previousRecords = <<Rec(Str("ipfs"), "contenthash", "website", Str("h1"))>>
  /\ records = <<Rec(Str("ipns"), "contenthash", "website", Str("h2"))>>
  /\ diff = records

\* C2: the diff ends with the tombstones: the previous records that no
\* current record matches, in previous order, with value '' and key, type
\* and group unchanged; everything before them is a current record with a
\* non-empty value.
C2_DeletionsAreUnmatchedPrevious ==
  pc = "diffed" =>
    LET tombs == SubseqAt(previousRecords, Unmatched)
        n == Len(diff) - Len(tombs)
    IN /\ n >= 0
       /\ \A i \in 1..Len(tombs) :
            /\ diff[n + i].value = EMPTY
            /\ diff[n + i].key = tombs[i].key
            /\ diff[n + i].type = tombs[i].type
            /\ diff[n + i].group = tombs[i].group
       /\ \A i \in 1..n : diff[i] \in Range(records) /\ Truthy(diff[i].value)

C2_Witness ==
  /\ pc = "diffed"
  /\ Cardinality(Unmatched) = 1
  /\ Len(diff) = 2
  /\ \E i \in DOMAIN previousRecords :
       /\ previousRecords[i].group = "website"
       /\ i \notin Unmatched
       /\ \A c \in Range(records) : c.key # previousRecords[i].key
  /\ diff[2].value = EMPTY
  /\ Truthy(diff[1].value)

\* C3: the diff starts with the changes: the current records, in current
\* order and unmodified, that have a non-empty value and are new or differ
\* from the first previous record of the same (key, group); every later
\* entry is a tombstone, so no other current record is emitted.
C3_ChangesAreNewOrUpdatedCurrent ==
  pc = "diffed" =>
    LET changes == SubseqAt(records, ChangedIndices)
    IN /\ Len(diff) >= Len(changes)
       /\ SubSeq(diff, 1, Len(changes)) = changes
       /\ \A i \in (Len(changes) + 1)..Len(diff) : diff[i].value = EMPTY

C3_Witness ==
  /\ pc = "diffed"
  /\ Len(previousRecords) = 2
  /\ Len(records) = 1
  /\ SameKeyGroup(previousRecords[1], records[1])
  /\ SameKeyGroup(previousRecords[2], records[1])
  /\ previousRecords[1].value # records[1].value
  /\ previousRecords[2].value = records[1].value
  /\ diff = records

\* C10 as stated, for the records outside the website group: with unique
\* (key, group) pairs, every previous record of non-empty value that current
\* does not hold with a non-empty value (absent, or present with value '')
\* has a tombstone in the diff.
C10_Original ==
  (pc = "diffed" /\ UniquePairs(records) /\ UniquePairs(previousRecords)) =>
    \A p \in Range(previousRecords) :
      (/\ p.group # "website"
       /\ Truthy(p.value)
       /\ ~\E c \in Range(records) : SameKeyGroup(c, p) /\ Truthy(c.value))
      => HasTombstone(p)

\* C10 amended: with unique (key, group) pairs, a previous record has a
\* tombstone in the diff exactly when current holds no record of its
\* (key, group), or for a website record no website record at all, whatever
\* the values: a record removed from the list is deleted, a record kept with
\* value '' yields neither a change nor a tombstone.
C10_TombstoneIffRecordRemoved ==
  (pc = "diffed" /\ UniquePairs(records) /\ UniquePairs(previousRecords)) =>
    /\ \A p \in Range(previousRecords) : HasTombstone(p) <=> ~Matched(p, records)
    /\ \A c \in Range(records) :
         ~Truthy(c.value) => \A d \in Range(diff) : ~SameKeyGroup(d, c)

C10_Witness ==
  /\ pc = "diffed"
  /\ UniquePairs(records)
  /\ UniquePairs(previousRecords)
  /\ Len(previousRecords) = 2
  /\ Len(records) = 1
  /\ records[1].value = EMPTY
  /\ SameKeyGroup(previousRecords[1], records[1])
  /\ Truthy(previousRecords[1].value)
  /\ previousRecords[2].group # "website"
  /\ diff = <<[previousRecords[2] EXCEPT !.value = EMPTY]>>

----------------------------------------------------------------------------
(* What the pipeline and options builder claims are stated with *)

AtMostOneWebsite(list) == Cardinality(WebsiteIndices(list)) <= 1

TheWebsite(list) == list[CHOOSE i \in WebsiteIndices(list) : TRUE]

\* the website records are the records of type contenthash
WebsiteIsTheContentHash(list) ==
  \A r \in Range(list) : r.type = "contenthash" <=> r.group = "website"

\* each list holds at most one website record, and current's has a usable key,
\* a non-empty value, and differs from previous's in key or value
WebsiteChanged ==
  /\ AtMostOneWebsite(records)
  /\ AtMostOneWebsite(previousRecords)
  /\ WebsiteIsTheContentHash(records)
  /\ WebsiteIsTheContentHash(previousRecords)
  /\ WebsiteIndices(records) # {}
  /\ LET w == TheWebsite(records)
     IN /\ w.key # EMPTY
        /\ w.key # AVATAR
        /\ w.value # EMPTY
        /\ w.value # Undefined
        /\ \/ WebsiteIndices(previousRecords) = {}
           \/ TheWebsite(previousRecords).key # w.key
           \/ TheWebsite(previousRecords).value # w.value

\* C9 as stated, where previous is the website record ipfs 'h1': after a changed
\* website record with a non-empty value, the options built from the diff
\* have contentHash equal to the current website value, and never the empty
\* value.
C9_Original ==
  (/\ pc = "submitted"
   /\ WebsiteChanged
   /\ previousRecords = <<Rec(Str("ipfs"), "contenthash", "website", Str("h1"))>>) =>
     /\ options.contentHash = TheWebsite(records).value
     /\ options.contentHash # EMPTY

\* C9 amended: when the changed website record's key is non-empty and not
\* 'avatar', the website records are the only contenthash records, and the
\* value is non-empty after trimming, contentHash is the trimmed current
\* website value, and so never the empty tombstone value.
C9_ContentHashIsTrimmedWebsiteValue ==
  (/\ pc = "submitted"
   /\ WebsiteChanged
   /\ Trim(TheWebsite(records).value) # EMPTY)
  => /\ options.contentHash = Trim(TheWebsite(records).value)
     /\ options.contentHash # EMPTY

C9_Witness ==
  /\ pc = "submitted"
  /\ WebsiteChanged
  /\ Len(previousRecords) = 2
  /\ previousRecords[1] = Rec(Str("ipfs"), "contenthash", "website", Str("h1"))
  /\ previousRecords[2].type = "text"
  /\ records = <<Rec(Str("ipns"), "contenthash", "website", <<SP, "h2">>)>>
  /\ Len(diff) = 2
  /\ options.contentHash = Str("h2")
  /\ Len(options.texts) = 1

ValueOrEmpty(r) == IF r.value = Undefined THEN EMPTY ELSE r.value

\* record i reaches the text branch of the reducer
IsTextWrite(i) ==
  /\ records[i].type = "text"
  /\ records[i].key # EMPTY
  /\ records[i].key # AVATAR

\* record i reaches the avatar branch of the reducer
IsAvatarWrite(i) == records[i].key = AVATAR

\* record i writes the text bucket's entry of key k
Writes(i, k) ==
  \/ IsAvatarWrite(i) /\ k = AVATAR
  \/ IsTextWrite(i) /\ Trim(records[i].key) = k

Writers(k) == {i \in DOMAIN records : Writes(i, k)}

Max(I) == CHOOSE i \in I : \A j \in I : j <= i

EntriesOf(k) == {n \in DOMAIN options.texts : options.texts[n].key = k}

\* C5 as stated, its first part: every key of a type=text record other than
\* 'avatar' has exactly one entry, of its trimmed key, in the text bucket.
C5_Original ==
  pc = "folded" =>
    \A i \in DOMAIN records :
      (records[i].type = "text" /\ records[i].key # AVATAR)
      => Cardinality(EntriesOf(Trim(records[i].key))) = 1

\* C5 amended: the text bucket holds no two entries of one key; every
\* non-empty key of a type=text record other than 'avatar' has exactly one
\* entry, of its trimmed key; unless that trimmed key is 'avatar', the
\* entry's value is the trimmed value ('' when absent) of the last such
\* record; the entries are ordered by the last record that wrote each key;
\* a key no record wrote (an empty key's) has no entry.
C5_TextBucketUpsertLastWins ==
  pc = "folded" =>
    /\ \A m, n \in DOMAIN options.texts :
         options.texts[m].key = options.texts[n].key => m = n
    /\ \A i \in DOMAIN records :
         IsTextWrite(i) =>
           LET k == Trim(records[i].key)
           IN /\ Cardinality(EntriesOf(k)) = 1
              /\ k # AVATAR =>
                   \A n \in EntriesOf(k) :
                     options.texts[n].value = Trim(ValueOrEmpty(records[Max(Writers(k))]))
    /\ \A n \in DOMAIN options.texts : Writers(options.texts[n].key) # {}
    /\ \A m, n \in DOMAIN options.texts :
         m < n => Max(Writers(options.texts[m].key)) < Max(Writers(options.texts[n].key))

C5_Witness ==
  /\ pc = "folded"
  /\ Len(records) = 3
  /\ records[1] = Rec(Str("a"), "text", "general", Str("x"))
  /\ records[2].key = Str("b")
  /\ records[3] = Rec(<<SP, "a">>, "text", "general", Str("z"))
  /\ options.texts = <<[key |-> Str("b"), value |-> Str("x")],
                       [key |-> Str("a"), value |-> Str("z")]>>

\* record i reaches the addr branch of the reducer
IsCoinWrite(i) ==
  /\ records[i].type = "addr"
  /\ records[i].key # EMPTY
  /\ records[i].key # AVATAR

\* C6 as stated: the coin bucket holds at most one entry per coin; every key
\* of a type=addr record, surrounding whitespace included, has exactly one
\* entry whose coin is that key, and it carries the value of the last addr
\* record of that key.
C6_Original ==
  pc = "folded" =>
    /\ \A m, n \in DOMAIN options.coins :
         options.coins[m].coin = options.coins[n].coin => m = n
    /\ \A i \in DOMAIN records :
         IsCoinWrite(i) =>
           LET last == Max({j \in DOMAIN records :
                             IsCoinWrite(j) /\ records[j].key = records[i].key})
               entries == {n \in DOMAIN options.coins :
                             options.coins[n].coin = records[i].key}
           IN /\ Cardinality(entries) = 1
              /\ \A n \in entries : options.coins[n].value = ValueOrEmpty(records[last])

AvatarEntries(texts) == {n \in DOMAIN texts : texts[n].key = AVATAR}

\* the accumulated avatar value: '' when the bucket has no avatar entry
Accumulated(texts) ==
  IF AvatarEntries(texts) = {} THEN EMPTY ELSE texts[Min(AvatarEntries(texts))].value

\* the priority rule of C7
Chosen(acc, incoming, group) ==
  IF acc # EMPTY /\ group = "media" /\ incoming # EMPTY THEN incoming
  ELSE IF acc # EMPTY THEN acc
  ELSE incoming

OneAvatarRecord ==
  /\ Cardinality({i \in DOMAIN records : IsAvatarWrite(i)}) = 1
  /\ Cardinality(Writers(AVATAR)) = 1

TheAvatarRecord == records[CHOOSE i \in DOMAIN records : IsAvatarWrite(i)]

\* C7 as stated, its last sentence: with exactly one avatar record and no
\* other record writing the avatar text key, the avatar entry equals that
\* record's value.
C7_Original ==
  (pc = "folded" /\ OneAvatarRecord) =>
    /\ Cardinality(AvatarEntries(options.texts)) = 1
    /\ Accumulated(options.texts) = TheAvatarRecord.value

\* one step of the reducer on a record of key 'avatar': the avatar entry is
\* removed and appended with the value the priority rule chooses
AvatarStep ==
  (pc = "folding" /\ records[cursor + 1].key = AVATAR) =>
    LET r == records[cursor + 1]
        others == SelectSeq(options.texts, LAMBDA e : e.key # AVATAR)
        chosen == Chosen(Accumulated(options.texts), Trim(ValueOrEmpty(r)), r.group)
    IN /\ options'.texts = others \o <<[key |-> AVATAR, value |-> chosen]>>
       /\ options'.coins = options.coins
       /\ options'.contentHash = options.contentHash
       /\ options'.abi = options.abi
       /\ options'.clearRecords = options.clearRecords

\* the final avatar entry when one record alone wrote it
SingleAvatar ==
  (pc = "folded" /\ OneAvatarRecord) =>
    /\ Cardinality(AvatarEntries(options.texts)) = 1
    /\ Accumulated(options.texts) = Trim(ValueOrEmpty(TheAvatarRecord))

\* C7 amended: folding a record of key 'avatar', of any type, replaces the
\* text bucket's avatar entry (removed, then appended) by the value the
\* priority rule chooses from the accumulated value, the incoming trimmed
\* value and the incoming group, and changes nothing else; with exactly one
\* avatar record and no other record writing the avatar text key, the final
\* avatar entry equals that record's trimmed value ('' when absent).
C7_AvatarPriorityRule == [][AvatarStep]_vars /\ []SingleAvatar

C7_Witness ==
  /\ pc = "folded"
  /\ Len(records) = 3
  /\ records[1] = Rec(AVATAR, "text", "custom", Str("r"))
  /\ records[2] = Rec(AVATAR, "addr", "address", Str("s"))
  /\ records[3] = Rec(AVATAR, "text", "media", <<SP, "q">>)
  /\ options.texts = <<[key |-> AVATAR, value |-> Str("q")]>>

----------------------------------------------------------------------------
(* What the form and classifier claims are stated with *)

NoFormAvatar(list) ==
  \A r \in Range(list) : ~(r.key = AVATAR /\ r.group = "media")

Occurrences(list, r) == Cardinality({i \in DOMAIN list : list[i] = r})

\* the same records, each as often, in whatever order
EqualUpToOrdering(a, b) ==
  /\ Len(a) = Len(b)
  /\ \A r \in Range(a) \cup Range(b) : Occurrences(a, r) = Occurrences(b, r)

\* C4 as stated: a list with unique (key, group) pairs and no avatar/media
\* record comes back from the form and back again equal up to ordering.
C4_Original ==
  (pc = "restored" /\ UniquePairs(records) /\ NoFormAvatar(records)) =>
    EqualUpToOrdering(restored, records)

\* C4 amended: such a list comes back equal up to ordering once each of its
\* records that carries no value is given the value ''; nothing is added and
\* nothing is lost.
C4_RoundTripUpToAbsentValues ==
  (pc = "restored" /\ UniquePairs(records) /\ NoFormAvatar(records)) =>
    EqualUpToOrdering(restored,
      [i \in DOMAIN records |->
         [records[i] EXCEPT !.value = IF @ = Undefined THEN EMPTY ELSE @]])

C4_Witness ==
  /\ pc = "restored"
  /\ UniquePairs(records)
  /\ NoFormAvatar(records)
  /\ Len(records) = 3
  /\ \E r \in Range(records) : r.key = AVATAR
  /\ \E r \in Range(records) : r.value = Undefined
  /\ Len(restored) = 3
  /\ restored # records

\* the rank C8 names: the table's value for (group, lowercased key), and the
\* group default for a key the table does not hold
GroupDefault(g) ==
  CASE g = "media" -> 1
    [] g = "general" -> 199
    [] g = "social" -> 299
    [] g = "address" -> 399
    [] g = "website" -> 499
    [] g = "other" -> 599
    [] g = "custom" -> 999

Rank(r) ==
  LET k == toLowerCase(r.key)
  IN IF k \in DOMAIN sortValues[r.group] THEN sortValues[r.group][k]
     ELSE GroupDefault(r.group)

OfRank(list, v) == SelectSeq(list, LAMBDA r : Rank(r) = v)

\* C8: the output is the classified records (texts, coins, website, abi) in
\* non-decreasing rank, and the records of each rank are the classified
\* records of that rank in their input order; so the output is a permutation
\* of them that keeps the order of equal ranks.
C8_SortedByRankStable ==
  pc = "sorted" =>
    LET input == Classified(profile)
    IN /\ Len(sorted) = Len(input)
       /\ \A i \in 1..(Len(sorted) - 1) : Rank(sorted[i]) <= Rank(sorted[i + 1])
       /\ \A r \in Range(input) \cup Range(sorted) :
            OfRank(sorted, Rank(r)) = OfRank(input, Rank(r))

C8_Witness ==
  /\ pc = "sorted"
  /\ Len(profile.texts) = 2
  /\ profile.texts[1] = [key |-> Str("foo"), value |-> Str("v2")]
  /\ profile.texts[2] = [key |-> Str("Name"), value |-> Str("v1")]
  /\ Len(profile.coins) = 2
  /\ profile.coins[1].name = Str("DOGE")
  /\ profile.coins[2].name = Str("ETH")
  /\ profile.contentHash # Undefined
  /\ profile.abi # Undefined
  /\ Len(sorted) = 6
  /\ sorted[1].key = Str("ETH")
  /\ sorted[2].key = Str("DOGE")
  /\ sorted[5].key = Str("foo")
  /\ sorted[6].key = Str("Name")

====
